---- MODULE Spec2Model ----
(***************************************************************************)
(* rime-mcp: the "speak" tool and the WebSocket streaming playback         *)
(* pipeline of stream-audio.ts (playText), as a state machine.             *)
(*                                                                         *)
(* One playText session is modelled from the call to the last event of its *)
(* transport and of its player process.  The environment (platform, the    *)
(* executables on the search path, the API key) is fixed at Init; the      *)
(* remote service, the WebSocket and the player process are nondeterministic*)
(* sources of events, handled one at a time (Node's event loop).           *)
(***************************************************************************)
EXTENDS Integers, Sequences, FiniteSets, TLC

\* ------------------------------------------------------------------ bounds
\* Audio chunks the remote end delivers in one session.
MaxChunks == 3
\* Largest initialBufferSize a direct caller passes.
MaxK == 2
\* Calls of getAudioPlayerCommand followed in the resolver's own specification.
MaxCalls == 2
\* speak calls the event-stream server (index.ts) takes, one after the other.
MaxSpeaks == 1
\* Audio chunks delivered to each of two calls that run in one process.
TwoChunks == 1

\* ------------------------------------------------------------- environment
Platforms == {"darwin", "win32", "linux"}

\* The executables getAudioPlayerCommand probes for, in the order of its list.
players == <<"ffplay", "mpg123", "mplayer", "aplay">>

\* The search paths considered: which of the probed executables resolve.
PathChoices == { {}, {"aplay"}, {"ffplay", "mpg123"} }

\* ---------------------------------------------------------- configuration
\* speedAlpha is kept in tenths (10 is 1.0).
DEFAULT_CONFIG ==
    [ speaker           |-> "cove",
      modelId           |-> "mistv2",
      audioFormat       |-> "mp3",
      samplingRate      |-> 22050,
      speedAlpha        |-> 10,
      reduceLatency     |-> TRUE,
      initialBufferSize |-> 2 ]

\* An absent customConfig (playText(text)) spreads as the empty object.
NoConfig == << >>

\* A merge in which the defaults win: { ...customConfig, ...DEFAULT_CONFIG }
MergeDefaultsLast(defaults, custom) == defaults

\* { ...DEFAULT_CONFIG, ...customConfig }
MergeConfig(defaults, custom) ==
    [ f \in DOMAIN defaults |->
        IF f \in DOMAIN custom THEN custom[f] ELSE defaults[f] ]

\* The partial configurations a direct caller of playText passes.
CustomConfigs ==
    {NoConfig}
      \cup { [initialBufferSize |-> k] : k \in 0..MaxK }
      \cup { [speaker |-> "luna", reduceLatency |-> FALSE],
             [speaker |-> "a#b"] }

\* new WebSocket(url) throws a SyntaxError when the url holds a fragment
\* identifier; the url interpolates config.speaker.
UrlHasFragment(cfg) == cfg.speaker = "a#b"

\* ------------------------------------------------------------- wire format
\* A base64 text is a sequence of characters: 0..63 are the alphabet's
\* sextets, Blank is a whitespace character, which the decoder skips.
Blank == 63 + 1

RECURSIVE SkipBlanks(_)
SkipBlanks(s) ==
    IF s = << >> THEN << >>
    ELSE IF Head(s) = Blank THEN SkipBlanks(Tail(s))
         ELSE <<Head(s)>> \o SkipBlanks(Tail(s))

\* Bytes of a run of sextets: 4 sextets give 3 bytes, a trailing 3 give 2, a
\* trailing 2 give 1, a trailing single sextet gives none.
RECURSIVE DecodeSextets(_)
DecodeSextets(s) ==
    IF Len(s) < 2 THEN << >>
    ELSE IF Len(s) = 2 THEN << s[1] * 4 + (s[2] \div 16) >>
    ELSE IF Len(s) = 3 THEN
        << s[1] * 4 + (s[2] \div 16), (s[2] % 16) * 16 + (s[3] \div 4) >>
    ELSE << s[1] * 4 + (s[2] \div 16),
            (s[2] % 16) * 16 + (s[3] \div 4),
            (s[3] % 4) * 64 + s[4] >>
         \o DecodeSextets(SubSeq(s, 5, Len(s)))

\* Buffer.from(data, "base64")
Base64Decode(data) == DecodeSextets(SkipBlanks(data))

\* The base64 texts chunk frames carry: of 4 bytes and of 2 bytes.
Payloads == { <<1, 2, Blank, 3, 4, 16, 16>>, <<20, 6, 12>> }

RemoteMessages == {"quota exceeded"}

\* The frames the remote end may deliver.  A frame with no "type" field is
\* one JSON.parse fails on; a chunk's data is a string or (ill-formed) a number.
Frames ==
    { [raw |-> "}{"] }
      \cup { [type |-> "chunk", data |-> [string |-> TRUE, text |-> p]] : p \in Payloads }
      \cup { [type |-> "chunk", data |-> [string |-> FALSE, text |-> << >>]] }
      \cup { [type |-> "chunk"], [type |-> "timestamps"], [type |-> "pong"] }
      \cup { [type |-> "error", message |-> m] : m \in RemoteMessages }

\* ------------------------------------------------------------------ state
VARIABLES
    platform,        \* os.platform()
    path,            \* the probed executables that resolve on the search path
    apiKey,          \* whether process.env.RIME_API_KEY is set
    observe,         \* whether the frames handled are recorded in lastFrame
    caller,          \* who started the session: "none", "speak", "other", "direct"
    params,          \* the speak tool's arguments
    toolResult,      \* what the call-tool handler returned
    customConfig,    \* the customConfig argument of playText
    config,          \* playText's merged TtsConfig
    tmpDir,          \* the session's temporary directory: "none", "exists", "removed"
    ws,              \* the WebSocket: "none", "connecting", "open", "errored", "closed"
    sent,            \* what the session sent on the WebSocket, in order
    eosTimer,        \* the setTimeout of the open handler: "unset", "armed", "fired"
    chunkCount,
    isPlaying,
    playerProcess,   \* the spawned player: state, command line, the file it was started on
    audioFileStream, \* the write stream: state and the bytes written to it, in order
    promise,         \* the promise playText returned
    delivered,       \* history: the base64 texts of the chunk frames delivered, in order
    startLog,        \* history: one entry per playback start (startPlayback past its guard)
    spawnCount,      \* history: player processes spawned
    resolverLog,     \* history: the calls of getAudioPlayerCommand made outside a
                     \* session: the search path at the call, the answer, the probes
    server,          \* index.ts, the event-stream server process: whether it runs,
                     \* its tmpDir, the files in it, the speak calls it has taken
    httpCall,        \* index.ts, the doSpeak invocation in progress: its position
                     \* and its locals (tmpFilePath, outputStream, chunkCount, ...)
    lastFrame,       \* history, kept when observe: the type of the frame the
                     \* message handler handled last ("none" before the first)
    mcpProcess,      \* part_001, the MCP server process that calls playText:
                     \* whether it runs, and its own temporary directory
    eventStream,     \* index.ts, parseEventStream on its own: the body text of a
                     \* response, how much of it has been read, whether it ended
    parser,          \* parseEventStream's buffer and the events it has yielded
    tmpName,         \* the name mkdtempSync gave the session's directory
    parked,          \* a second playText call in the same process: its closure,
                     \* as it stands while the handlers of the first one run
    played           \* history: one entry per playAudio(tmpFilePath) invocation

env == <<platform, path, apiKey, observe>>
mcp == <<caller, params, toolResult>>
session == <<customConfig, config, tmpDir, ws, sent, eosTimer, chunkCount, isPlaying,
             playerProcess, audioFileStream, promise, delivered,
             startLog, spawnCount>>
\* State that no handler of a playText session touches.
elsewhere == <<resolverLog, server, httpCall, played, mcpProcess,
              eventStream, parser, tmpName, parked>>
\* State that a call of playText does not touch.
offCall == <<resolverLog, server, httpCall, played, mcpProcess,
            eventStream, parser, parked, lastFrame>>
outside == <<elsewhere, lastFrame>>
vars == <<platform, path, apiKey, observe, lastFrame, caller, params, toolResult, customConfig,
          config, tmpDir, ws, sent, eosTimer, chunkCount, isPlaying,
          playerProcess, audioFileStream, promise, delivered, startLog,
          spawnCount, resolverLog, server, httpCall, played, mcpProcess,
          eventStream, parser, tmpName, parked>>

\* ------------------------------------------------------------------ errors
Err(kind, message) == [kind |-> kind, message |-> message]
NoError == Err("none", "")
ConfigError == Err("ConfigError", "RIME_API_KEY environment variable is not set")
IOError == Err("IOError", "mkdtemp failed")
SetupError == Err("SyntaxError", "The URL contains a fragment identifier")
TransportErrors == { Err("TransportError", "ECONNRESET") }
RemoteError(message) == Err("RemoteError", message)
ProcessingError == Err("ProcessingError", "cannot process message")
NoPlayerAvailable ==
    Err("NoPlayerAvailable",
        "No suitable audio player found. Please install mpg123, mplayer, aplay, or ffplay.")
SpawnThrows == Err("PlaybackError", "spawn failed")
SpawnENOENT == Err("PlaybackError", "spawn ENOENT")

\* ------------------------------------------------------------- the promise
NoPromise == [state |-> "none", error |-> NoError]
Pending == [state |-> "pending", error |-> NoError]

\* A resolve that overwrites a rejection.
resolveAlways(p) == [state |-> "resolved", error |-> NoError]

\* resolve(): settles a pending promise, does nothing to a settled one.
resolve(p) ==
    IF p.state = "pending" THEN [state |-> "resolved", error |-> NoError] ELSE p

\* A reject that overwrites an earlier rejection.
rejectLast(p, e) ==
    IF p.state = "resolved" THEN p ELSE [state |-> "rejected", error |-> e]

\* reject(e)
reject(p, e) ==
    IF p.state = "pending" THEN [state |-> "rejected", error |-> e] ELSE p

Settled(p) == p.state \in {"resolved", "rejected"}

\* ---------------------------------------------------------- player resolver
Command(cmd, args, useFilePath) ==
    [ok |-> TRUE, cmd |-> cmd, args |-> args, useFilePath |-> useFilePath,
     error |-> NoError]

FfplayArgs == <<"-nodisp", "-autoexit", "-hide_banner", "-loglevel", "error">>

\* The args of each entry of the players list.
PlayerArgs(cmd) ==
    IF cmd = "ffplay" THEN FfplayArgs
    ELSE IF cmd = "aplay" THEN <<"-q">>
    ELSE << >>

\* A search that gives up at the first probe that fails.
FirstOrNothing(list, resolvable) ==
    IF list # << >> /\ Head(list) \in resolvable
    THEN Command(Head(list), PlayerArgs(Head(list)), FALSE)
    ELSE [ok |-> FALSE, cmd |-> "", args |-> << >>,
          useFilePath |-> FALSE, error |-> NoPlayerAvailable]

\* for (const player of players): the first one `which` resolves.
RECURSIVE FirstResolvable(_, _)
FirstResolvable(list, resolvable) ==
    IF list = << >> THEN [ok |-> FALSE, cmd |-> "", args |-> << >>,
                          useFilePath |-> FALSE, error |-> NoPlayerAvailable]
    ELSE IF Head(list) \in resolvable
         THEN Command(Head(list), PlayerArgs(Head(list)), FALSE)
         ELSE FirstResolvable(Tail(list), resolvable)

\* A resolver that hands out aplay when nothing resolves, instead of throwing.
getAudioPlayerCommandOrAplay(plat, resolvable) ==
    IF plat = "darwin" THEN Command("afplay", << >>, FALSE)
    ELSE IF plat = "win32" THEN
        IF "ffplay" \in resolvable
        THEN Command("ffplay", FfplayArgs, FALSE)
        ELSE Command("powershell",
                     <<"-c", "(New-Object Media.SoundPlayer \"$args[0]\").PlaySync()">>,
                     TRUE)
    ELSE IF FirstResolvable(players, resolvable).ok
         THEN FirstResolvable(players, resolvable)
         ELSE Command("aplay", <<"-q">>, FALSE)

getAudioPlayerCommand(plat, resolvable) ==
    IF plat = "darwin" THEN Command("afplay", << >>, FALSE)
    ELSE IF plat = "win32" THEN
        IF "ffplay" \in resolvable
        THEN Command("ffplay", FfplayArgs, FALSE)
        ELSE Command("powershell",
                     <<"-c", "(New-Object Media.SoundPlayer \"$args[0]\").PlaySync()">>,
                     TRUE)
    ELSE FirstResolvable(players, resolvable)

\* The executables the loop over `list` hands to execSync(`which ...`), in
\* order: every entry up to and including the first one that resolves.
RECURSIVE Probed(_, _)
Probed(list, resolvable) ==
    IF list = << >> THEN << >>
    ELSE IF Head(list) \in resolvable THEN <<Head(list)>>
         ELSE <<Head(list)>> \o Probed(Tail(list), resolvable)

\* The execSync probes one call of getAudioPlayerCommand makes.
execSyncProbes(plat, resolvable) ==
    IF plat = "darwin" THEN << >>
    ELSE IF plat = "win32" THEN <<"ffplay">>
    ELSE Probed(players, resolvable)

\* ------------------------------------------------------------ the session
\* A cleanup that removes nothing.
cleanupNothing(dir) == dir

\* cleanup(): fs.rmSync(tmpDir, { recursive: true, force: true })
cleanup(dir) == "removed"

audioFilePath == "combined-audio.mp3"

NoPlayer == [state |-> "none", cmd |-> "", args |-> << >>,
             input |-> [exists |-> FALSE, bytes |-> << >>], exitCode |-> 0]

NoStream == [state |-> "none", bytes |-> << >>]

\* A write that puts the new bytes in front of the earlier ones.
writeInFront(stream, buffer) == [stream EXCEPT !.bytes = buffer \o @]

\* audioFileStream.write(audioBuffer)
write(stream, buffer) == [stream EXCEPT !.bytes = @ \o buffer]

\* An end() that writes a trailer each time it is called.
endWritesTrailer(stream) == [state |-> "ended", bytes |-> stream.bytes \o <<0>>]

\* An end() that leaves the stream open.
endNothing(stream) == stream

\* audioFileStream.end()
end(stream) == [stream EXCEPT !.state = "ended"]

\* What spawn may do: start the process, fail later with an 'error' event
\* (ENOENT and the like), or throw.
SpawnOutcomes == {"running", "enoent", "throws"}

\* A startPlayback that sets isPlaying only once the player has been spawned.
startPlaybackRetry(outcome, on, n, dir, p, stream) ==
    LET player == getAudioPlayerCommand(platform, path)
        log == Append(startLog,
                      [on |-> on, chunks |-> n, promise |-> p.state,
                       player |-> IF player.ok THEN player.cmd
                                  ELSE player.error.kind])
    IN  IF isPlaying
        THEN [isPlaying |-> isPlaying, playerProcess |-> playerProcess,
              tmpDir |-> dir, promise |-> p, startLog |-> startLog,
              spawnCount |-> spawnCount]
        ELSE IF ~player.ok
        THEN [isPlaying |-> FALSE, playerProcess |-> playerProcess,
              tmpDir |-> cleanup(dir), promise |-> reject(p, player.error),
              startLog |-> log, spawnCount |-> spawnCount]
        ELSE IF outcome = "throws"
        THEN [isPlaying |-> FALSE, playerProcess |-> playerProcess,
              tmpDir |-> cleanup(dir), promise |-> reject(p, SpawnThrows),
              startLog |-> log, spawnCount |-> spawnCount]
        ELSE [isPlaying |-> TRUE,
              playerProcess |->
                [state |-> IF outcome = "enoent" THEN "failing" ELSE "running",
                 cmd |-> player.cmd,
                 args |-> player.args \o <<audioFilePath>>,
                 input |-> IF dir = "exists"
                           THEN [exists |-> TRUE, bytes |-> stream.bytes]
                           ELSE [exists |-> FALSE, bytes |-> << >>],
                 exitCode |-> 0],
              tmpDir |-> dir, promise |-> p, startLog |-> log,
              spawnCount |-> spawnCount + 1]

\* startPlayback(), entered from the event `on` with `n` chunks delivered, the
\* temporary directory `dir`, the promise `p` and the stream `stream` as the
\* calling handler left them.  The result holds what it assigns; startLog
\* records the event, the chunks delivered so far, the promise's state on
\* entry and what the resolver answered.
startPlayback(outcome, on, n, dir, p, stream) ==
    LET player == getAudioPlayerCommand(platform, path)
        log == Append(startLog,
                      [on |-> on, chunks |-> n, promise |-> p.state,
                       player |-> IF player.ok THEN player.cmd
                                  ELSE player.error.kind])
    IN  IF isPlaying
        THEN [isPlaying |-> isPlaying, playerProcess |-> playerProcess,
              tmpDir |-> dir, promise |-> p, startLog |-> startLog,
              spawnCount |-> spawnCount]
        ELSE IF ~player.ok
        THEN [isPlaying |-> TRUE, playerProcess |-> playerProcess,
              tmpDir |-> cleanup(dir), promise |-> reject(p, player.error),
              startLog |-> log, spawnCount |-> spawnCount]
        ELSE IF outcome = "throws"
        THEN [isPlaying |-> TRUE, playerProcess |-> playerProcess,
              tmpDir |-> cleanup(dir), promise |-> reject(p, SpawnThrows),
              startLog |-> log, spawnCount |-> spawnCount]
        ELSE [isPlaying |-> TRUE,
              playerProcess |->
                [state |-> IF outcome = "enoent" THEN "failing" ELSE "running",
                 cmd |-> player.cmd,
                 args |-> player.args \o <<audioFilePath>>,
                 input |-> IF dir = "exists"
                           THEN [exists |-> TRUE, bytes |-> stream.bytes]
                           ELSE [exists |-> FALSE, bytes |-> << >>],
                 exitCode |-> 0],
              tmpDir |-> dir, promise |-> p, startLog |-> log,
              spawnCount |-> spawnCount + 1]

\* A threshold test that every chunk passes.
ThresholdAlways(count, cfg) == count >= 1

\* A threshold test that is off by one (> for >=).
ThresholdPassed(count, cfg) == count > cfg.initialBufferSize

\* The threshold test of the message handler: chunkCount >= config.initialBufferSize
ThresholdReached(count, cfg) == count >= cfg.initialBufferSize

\* A getApiKey that hands out an undefined key instead of throwing.
getApiKeyUnchecked(set) == [ok |-> TRUE, error |-> NoError]

\* getApiKey(): throws when process.env.RIME_API_KEY is not set.
getApiKey(set) ==
    IF set THEN [ok |-> TRUE, error |-> NoError]
    ELSE [ok |-> FALSE, error |-> ConfigError]

\* The directory names mkdtempSync can give: the prefix and a random suffix.
DirNames == {"rime-stream-a", "rime-stream-b"}

\* The names given so far in this process: the one of the other call, if
\* that call came as far as mkdtempSync.
NamesGiven == {parked.tmpName} \ {"none"}

\* A mkdtempSync that gives every call the same name.
mkdtempSame(given) == CHOOSE name \in DirNames : TRUE

\* fs.mkdtempSync(prefix): a unique directory, under a name no earlier call
\* was given.  The suffix is random; only whether two names are the same
\* matters, so the first name not given yet stands for all of them.
mkdtemp(given) == CHOOSE name \in DirNames \ given : TRUE

\* playText(text, customConfig), up to the return of the promise.
playText(custom, mkdtempOk) ==
    /\ customConfig' = custom
    /\ config' = MergeConfig(DEFAULT_CONFIG, custom)
    /\ UNCHANGED <<sent, eosTimer, chunkCount, isPlaying, playerProcess,
                   delivered, startLog, spawnCount>>
    /\ IF ~getApiKey(apiKey).ok
       THEN /\ promise' = reject(Pending, getApiKey(apiKey).error)
            /\ UNCHANGED <<tmpDir, tmpName, ws, audioFileStream>>
       ELSE IF ~mkdtempOk
       THEN /\ promise' = reject(Pending, IOError)
            /\ UNCHANGED <<tmpDir, tmpName, ws, audioFileStream>>
       ELSE IF UrlHasFragment(config')
       THEN /\ promise' = reject(Pending, SetupError)
            /\ tmpDir' = "exists"
            /\ tmpName' = mkdtemp(NamesGiven)
            /\ UNCHANGED <<ws, audioFileStream>>
       ELSE /\ promise' = Pending
            /\ tmpDir' = "exists"
            /\ tmpName' = mkdtemp(NamesGiven)
            /\ ws' = "connecting"
            /\ audioFileStream' = [state |-> "open", bytes |-> << >>]

\* ------------------------------------------------------------- MCP server
NoParams == << >>

\* The arguments a client passes to the speak tool besides the text.
ToolInputs ==
    { NoParams,
      [speaker |-> "luna"],
      [speaker |-> "luna", speedAlpha |-> 15, reduceLatency |-> FALSE] }

ToolNames == {"speak", "hum"}

NoResult == [kind |-> "none"]

\* params.speaker || "cove"
ReportedSpeaker(input) ==
    IF "speaker" \in DOMAIN input THEN input.speaker ELSE "cove"

\* The customConfig doSpeak hands to playText: playText(params.text).
doSpeakConfig(input) == NoConfig

\* A doSpeak that rethrows the error as it came.
doSpeakResultBare(input, p) ==
    IF p.state = "resolved"
    THEN [kind |-> "result", success |-> TRUE, speaker |-> ReportedSpeaker(input)]
    ELSE [kind |-> "McpError", code |-> "InternalError",
          message |-> <<p.error.message>>]

\* What doSpeak returns once the awaited playText promise has settled.
doSpeakResult(input, p) ==
    IF p.state = "resolved"
    THEN [kind |-> "result", success |-> TRUE, speaker |-> ReportedSpeaker(input)]
    ELSE [kind |-> "McpError", code |-> "InternalError",
          message |-> <<"Rime API error: ", p.error.message>>]

\* ----------------------------------------------------------------- actions
\* The closure of a playText call that has not been made.
Idle == [caller |-> "none", customConfig |-> NoConfig, config |-> DEFAULT_CONFIG,
         tmpName |-> "none", tmpDir |-> "none", ws |-> "none", sent |-> << >>,
         eosTimer |-> "unset", chunkCount |-> 0, isPlaying |-> FALSE,
         playerProcess |-> NoPlayer, audioFileStream |-> NoStream,
         promise |-> NoPromise, delivered |-> << >>, startLog |-> << >>,
         spawnCount |-> 0]

\* No playText call has been made.
NoSession ==
    /\ caller = "none"
    /\ tmpName = "none"
    /\ parked = Idle
    /\ lastFrame = "none"
    /\ params = NoParams
    /\ toolResult = NoResult
    /\ customConfig = NoConfig
    /\ config = DEFAULT_CONFIG
    /\ tmpDir = "none"
    /\ ws = "none"
    /\ sent = << >>
    /\ eosTimer = "unset"
    /\ chunkCount = 0
    /\ isPlaying = FALSE
    /\ playerProcess = NoPlayer
    /\ audioFileStream = NoStream
    /\ promise = NoPromise
    /\ delivered = << >>
    /\ startLog = << >>
    /\ spawnCount = 0

\* index.ts is not running.
NoServer == [running |-> FALSE, tmpDir |-> "none", files |-> {}, calls |-> 0]

NoCall == [pc |-> "idle", tmpFilePath |-> 0, request |-> << >>,
           outputStream |-> NoStream, chunkCount |-> 0, wordTimestamps |-> 0,
           received |-> << >>, result |-> NoResult]

\* part_001 is not running.
NoProcess == [running |-> FALSE, tmpDir |-> "none"]

\* Start-up of part_001: without RIME_API_KEY the process exits at once;
\* otherwise it makes its own temporary directory and serves.
Started(key) ==
    IF key THEN [running |-> TRUE, tmpDir |-> "exists"] ELSE NoProcess

\* No response body is being parsed.
NoBody == [body |-> << >>, pos |-> 0, ended |-> FALSE]

\* let buffer = ""; nothing yielded yet.
NewParser == [buffer |-> << >>, yielded |-> << >>]

NoHttp ==
    /\ eventStream = NoBody
    /\ parser = NewParser
    /\ server = NoServer
    /\ httpCall = NoCall
    /\ played = << >>

Init ==
    /\ platform \in Platforms
    /\ path \in PathChoices
    /\ apiKey \in BOOLEAN
    /\ observe = FALSE
    /\ NoSession
    /\ resolverLog = << >>
    /\ NoHttp
    /\ mcpProcess = Started(apiKey)

\* The call-tool request handler: "speak" runs doSpeak, which awaits playText.
\* The server process is up only if RIME_API_KEY was set when it started.
CallTool ==
    /\ caller = "none"
    /\ mcpProcess.running
    /\ \E name \in ToolNames, input \in ToolInputs, mkdtempOk \in BOOLEAN :
        IF name = "speak"
        THEN /\ caller' = "speak"
             /\ params' = input
             /\ toolResult' = NoResult
             /\ playText(doSpeakConfig(input), mkdtempOk)
        ELSE /\ caller' = "other"
             /\ params' = input
             /\ toolResult' = [kind |-> "McpError", code |-> "MethodNotFound",
                               message |-> <<"Unknown tool: ", name>>]
             /\ UNCHANGED <<session, tmpName>>
    /\ UNCHANGED <<env, offCall>>

\* doSpeak's continuation after `await playText(...)`.
ToolReturn ==
    /\ caller = "speak"
    /\ toolResult = NoResult
    /\ Settled(promise)
    /\ toolResult' = doSpeakResult(params, promise)
    /\ UNCHANGED <<caller, params>>
    /\ UNCHANGED <<env, outside>>
    /\ UNCHANGED session

\* A direct caller of the exported playText (demo-long-text.ts, a library user).
DirectCall ==
    /\ caller = "none"
    /\ \E custom \in CustomConfigs, mkdtempOk \in BOOLEAN :
        playText(custom, mkdtempOk)
    /\ caller' = "direct"
    /\ UNCHANGED <<params, toolResult>>
    /\ UNCHANGED <<env, offCall>>

\* A send that puts the message in front of those sent before.
sendInFront(out, readyState, message) ==
    IF readyState = "open" THEN <<message>> \o out ELSE out

\* ws.send(message): transmitted on an open socket; on a socket that is
\* closing or closed nothing is transmitted (and nothing is thrown).
send(out, readyState, message) ==
    IF readyState = "open" THEN Append(out, message) ELSE out

\* ws.on("open")
WsOpen ==
    /\ ws = "connecting"
    /\ ws' = "open"
    /\ sent' = send(sent, ws', "text")
    /\ eosTimer' = "armed"
    /\ UNCHANGED <<customConfig, config, tmpDir, chunkCount, isPlaying, playerProcess,
                   audioFileStream, promise, delivered, startLog,
                   spawnCount>>
    /\ UNCHANGED <<env, mcp, outside>>

\* The setTimeout callback of the open handler: ws.send({operation: "eos"}).
\* A send on a socket that is no longer open transmits nothing.
EosTimeout ==
    /\ eosTimer = "armed"
    /\ eosTimer' = "fired"
    /\ sent' = send(sent, ws, "eos")
    /\ UNCHANGED <<customConfig, config, tmpDir, ws, chunkCount, isPlaying, playerProcess,
                   audioFileStream, promise, delivered, startLog,
                   spawnCount>>
    /\ UNCHANGED <<env, mcp, outside>>

\* A handler on which no frame throws.
ThrowsNever(frame) == FALSE

\* Whether the handler's try block throws on the frame: JSON.parse on a
\* malformed text, Buffer.from on data that is not a string.
Throws(frame) ==
    \/ "type" \notin DOMAIN frame
    \/ /\ frame.type = "chunk"
       /\ "data" \in DOMAIN frame
       /\ ~frame.data.string

IsChunk(frame) ==
    /\ "type" \in DOMAIN frame
    /\ frame.type = "chunk"
    /\ "data" \in DOMAIN frame

IsError(frame) ==
    /\ "type" \in DOMAIN frame
    /\ frame.type = "error"

\* ws.on("message") on a chunk frame with string data.
OnChunk(frame, outcome) ==
    LET audioBuffer == Base64Decode(frame.data.text)
        stream == write(audioFileStream, audioBuffer)
        count == chunkCount + 1
        start == startPlayback(outcome, "chunk", Len(delivered) + 1, tmpDir,
                               promise, stream)
    IN  /\ audioFileStream' = stream
        /\ chunkCount' = count
        /\ delivered' = Append(delivered, frame.data.text)
        /\ IF ThresholdReached(count, config) /\ ~isPlaying
           THEN /\ isPlaying' = start.isPlaying
                /\ playerProcess' = start.playerProcess
                /\ tmpDir' = start.tmpDir
                /\ promise' = start.promise
                /\ startLog' = start.startLog
                /\ spawnCount' = start.spawnCount
           ELSE UNCHANGED <<isPlaying, playerProcess, tmpDir, promise,
                            startLog, spawnCount>>

\* The remote end sends at most MaxChunks audio chunks.
Deliverable(frame) ==
    (IsChunk(frame) /\ frame.data.string) => Len(delivered) < MaxChunks

\* A fall-through branch that counts the frame as a chunk.
otherwiseCounts(frame) ==
    /\ chunkCount' = chunkCount + 1
    /\ UNCHANGED <<tmpDir, promise, isPlaying, playerProcess,
                   audioFileStream, delivered, startLog, spawnCount>>

\* The branches of the handler that do nothing to the session: a timestamps
\* frame (logged only), a chunk without data, a type the handler does not name.
otherwise(frame) ==
    UNCHANGED <<tmpDir, promise, chunkCount, isPlaying, playerProcess,
                audioFileStream, delivered, startLog, spawnCount>>

\* function incoming(data): the body of the message handler.
incoming(frame, outcome) ==
    IF Throws(frame)
    THEN /\ tmpDir' = cleanup(tmpDir)
         /\ promise' = reject(promise, ProcessingError)
         /\ UNCHANGED <<chunkCount, isPlaying, playerProcess,
                        audioFileStream, delivered, startLog, spawnCount>>
    ELSE IF IsChunk(frame)
    THEN OnChunk(frame, outcome)
    ELSE IF IsError(frame)
    THEN /\ tmpDir' = cleanup(tmpDir)
         /\ promise' = reject(promise, RemoteError(frame.message))
         /\ UNCHANGED <<chunkCount, isPlaying, playerProcess,
                        audioFileStream, delivered, startLog, spawnCount>>
    ELSE otherwise(frame)

\* message.type, or "malformed" for a text JSON.parse fails on.
FrameType(frame) ==
    IF "type" \in DOMAIN frame THEN frame.type ELSE "malformed"

\* A socket that still hands out messages after it has closed.
ReceivesWhenClosed(readyState) == readyState \in {"open", "closed"}

\* The socket emits 'message' while it is open: none before 'open', none
\* after 'error' or 'close'.
Receives(readyState) == readyState = "open"

\* ws.on("message")
WsMessage ==
    /\ Receives(ws)
    /\ \E frame \in Frames, outcome \in SpawnOutcomes :
        /\ Deliverable(frame)
        /\ incoming(frame, outcome)
        /\ lastFrame' = IF observe THEN FrameType(frame) ELSE lastFrame
    /\ UNCHANGED <<customConfig, config, ws, sent, eosTimer>>
    /\ UNCHANGED <<env, mcp, elsewhere>>

\* ws.on("error"); the socket then closes.
WsError ==
    /\ ws \in {"connecting", "open"}
    /\ \E err \in TransportErrors :
        promise' = reject(promise, err)
    /\ tmpDir' = cleanup(tmpDir)
    /\ ws' = "errored"
    /\ UNCHANGED <<customConfig, config, sent, eosTimer, chunkCount, isPlaying, playerProcess,
                   audioFileStream, delivered, startLog, spawnCount>>
    /\ UNCHANGED <<env, mcp, outside>>

\* ws.on("close")
WsClose ==
    /\ ws \in {"open", "errored"}
    /\ ws' = "closed"
    /\ audioFileStream' = end(audioFileStream)
    /\ \E outcome \in SpawnOutcomes :
        LET start == startPlayback(outcome, "close", Len(delivered), tmpDir,
                                   promise, audioFileStream')
        IN  IF ~isPlaying
            THEN /\ isPlaying' = start.isPlaying
                 /\ playerProcess' = start.playerProcess
                 /\ tmpDir' = start.tmpDir
                 /\ promise' = start.promise
                 /\ startLog' = start.startLog
                 /\ spawnCount' = start.spawnCount
            ELSE UNCHANGED <<isPlaying, playerProcess, tmpDir, promise,
                             startLog, spawnCount>>
    /\ UNCHANGED <<customConfig, config, sent, eosTimer, chunkCount, delivered>>
    /\ UNCHANGED <<env, mcp, outside>>

\* playerProcess.on("error"): the process could not be spawned.
PlayerError ==
    /\ playerProcess.state = "failing"
    /\ playerProcess' = [playerProcess EXCEPT !.state = "errored"]
    /\ tmpDir' = cleanup(tmpDir)
    /\ promise' = reject(promise, SpawnENOENT)
    /\ UNCHANGED <<customConfig, config, ws, sent, eosTimer, chunkCount, isPlaying,
                   audioFileStream, delivered, startLog, spawnCount>>
    /\ UNCHANGED <<env, mcp, outside>>

\* The exit codes of a player that ran.
ExitCodes == {0, 1}

\* The code the close event carries after a failed spawn.
SpawnFailedCode == 0 - 2

\* A close handler that treats a non-zero exit code as a failure.
onPlayerCloseStrict(p, code) ==
    IF code = 0 THEN resolve(p)
    ELSE reject(p, Err("PlaybackError", "player exited with an error"))

\* A close handler that forgets to resolve.
onPlayerCloseForgets(p, code) == p

\* What the close handler does to the promise: resolve(), whatever the code.
onPlayerClose(p, code) == resolve(p)

\* playerProcess.on("close")
PlayerClose ==
    /\ playerProcess.state \in {"running", "errored"}
    /\ \E c \in ExitCodes :
        LET code == IF playerProcess.state = "errored" THEN SpawnFailedCode ELSE c
        IN  /\ playerProcess' = [playerProcess EXCEPT !.state = "exited",
                                                      !.exitCode = code]
            /\ promise' = onPlayerClose(promise, code)
    /\ tmpDir' = cleanup(tmpDir)
    /\ UNCHANGED <<customConfig, config, ws, sent, eosTimer, chunkCount, isPlaying,
                   audioFileStream, delivered, startLog, spawnCount>>
    /\ UNCHANGED <<env, mcp, outside>>

Next ==
    \/ CallTool
    \/ DirectCall
    \/ ToolReturn
    \/ WsOpen
    \/ EosTimeout
    \/ WsMessage
    \/ WsError
    \/ WsClose
    \/ PlayerError
    \/ PlayerClose

Spec == Init /\ [][Next]_vars

\* The socket of the ws library, once created, emits 'error' or 'close', and
\* 'close' after 'error'; a spawned child process emits 'error' or 'close',
\* and 'close' after 'error'.
Fairness ==
    /\ WF_vars(WsError \/ WsClose)
    /\ WF_vars(PlayerError)
    /\ WF_vars(PlayerClose)

\* The sessions of one platform, the one on which the resolver can fail.
FairInit == Init /\ platform = "linux" /\ apiKey

FairSpec == FairInit /\ [][Next]_vars /\ Fairness

\* The sessions of one environment, with the frames handled on record.
InitObserved ==
    /\ platform = "linux"
    /\ path = {"aplay"}
    /\ apiKey = TRUE
    /\ observe = TRUE
    /\ NoSession
    /\ resolverLog = << >>
    /\ NoHttp
    /\ mcpProcess = Started(apiKey)

SpecObserved == InitObserved /\ [][Next]_vars

\* ------------------------------------------- part_001 under a SIGINT
\* process.on("SIGINT"): server.close(), then process.exit(0), whose 'exit'
\* hook removes the directory part_001 made for itself.  The directory of
\* a playText session is known to that session's closure only.
Sigint ==
    /\ mcpProcess.running
    /\ mcpProcess' = [running |-> FALSE, tmpDir |-> cleanup(mcpProcess.tmpDir)]
    /\ UNCHANGED <<env, mcp, session, lastFrame, resolverLog, server,
                   httpCall, played, eventStream, parser, tmpName, parked>>

InitSigint == Init /\ platform = "linux" /\ path = {"aplay"} /\ apiKey

\* Events are handled while the process lives.
NextSigint ==
    \/ mcpProcess.running /\ CallTool
    \/ mcpProcess.running /\ DirectCall
    \/ mcpProcess.running /\ ToolReturn
    \/ mcpProcess.running /\ WsOpen
    \/ mcpProcess.running /\ EosTimeout
    \/ mcpProcess.running /\ WsMessage
    \/ mcpProcess.running /\ WsError
    \/ mcpProcess.running /\ WsClose
    \/ mcpProcess.running /\ PlayerError
    \/ mcpProcess.running /\ PlayerClose
    \/ Sigint

SpecSigint == InitSigint /\ [][NextSigint]_vars

\* ------------------------------------------- two calls in one process
\* The variables of the closure that one call of playText makes.
Closure ==
    [caller |-> caller, customConfig |-> customConfig, config |-> config,
     tmpName |-> tmpName, tmpDir |-> tmpDir, ws |-> ws, sent |-> sent,
     eosTimer |-> eosTimer, chunkCount |-> chunkCount, isPlaying |-> isPlaying,
     playerProcess |-> playerProcess, audioFileStream |-> audioFileStream,
     promise |-> promise, delivered |-> delivered, startLog |-> startLog,
     spawnCount |-> spawnCount]

\* What a call has before it when its handlers run again after those of the
\* other call: its own closure as it left it, and, under the path it holds
\* (tmpDir, audioFilePath), what the file system holds now.  A directory
\* and a file under the same name are the same directory and the same file.
Reload(own, other) ==
    IF own.tmpName # "none" /\ own.tmpName = other.tmpName
    THEN [own EXCEPT !.tmpDir = other.tmpDir,
                     !.audioFileStream.bytes =
                         IF other.audioFileStream.state = "none"
                         THEN @ ELSE other.audioFileStream.bytes]
    ELSE own

\* The event loop turns from the handlers of one call to those of the other.
\* Handlers run to completion, so the turn comes between two handlers.
Switch ==
    /\ parked' = Closure
    /\ LET own == Reload(parked, Closure)
       IN  /\ caller' = own.caller
           /\ customConfig' = own.customConfig
           /\ config' = own.config
           /\ tmpName' = own.tmpName
           /\ tmpDir' = own.tmpDir
           /\ ws' = own.ws
           /\ sent' = own.sent
           /\ eosTimer' = own.eosTimer
           /\ chunkCount' = own.chunkCount
           /\ isPlaying' = own.isPlaying
           /\ playerProcess' = own.playerProcess
           /\ audioFileStream' = own.audioFileStream
           /\ promise' = own.promise
           /\ delivered' = own.delivered
           /\ startLog' = own.startLog
           /\ spawnCount' = own.spawnCount
    /\ UNCHANGED <<env, params, toolResult, lastFrame, resolverLog, server,
                   httpCall, played, mcpProcess, eventStream, parser>>

InitTwo == Init /\ platform = "linux" /\ path = {"aplay"} /\ apiKey

\* Two direct calls playText(text), each followed through its first
\* TwoChunks chunks, all of one payload.
NextTwo ==
    \/ DirectCall /\ customConfig' = NoConfig
    \/ WsOpen
    \/ EosTimeout
    \/ WsMessage /\ Len(delivered') <= TwoChunks
                 /\ \A i \in 1..Len(delivered') : delivered'[i] = <<20, 6, 12>>
    \/ WsError
    \/ WsClose
    \/ PlayerError
    \/ PlayerClose
    \/ Switch

SpecTwo == InitTwo /\ [][NextTwo]_vars

\* ------------------------------------------- the resolver, called on its own
\* os.platform() values: the two the resolver names, and two it does not.
ResolverPlatforms == Platforms \cup {"freebsd"}

Executables == { players[i] : i \in 1..Len(players) }

InitResolver ==
    /\ platform \in ResolverPlatforms
    /\ path \in SUBSET Executables
    /\ apiKey = TRUE
    /\ observe = FALSE
    /\ NoSession
    /\ resolverLog = << >>
    /\ NoHttp
    /\ mcpProcess = NoProcess

\* One call of getAudioPlayerCommand(), on the search path as it is now.
ResolverCall ==
    /\ Len(resolverLog) < MaxCalls
    /\ resolverLog' =
         Append(resolverLog,
                [path |-> path,
                 answer |-> getAudioPlayerCommand(platform, path),
                 probed |-> execSyncProbes(platform, path)])
    /\ UNCHANGED <<env, mcp, session, server, httpCall, played, lastFrame,
                   mcpProcess, eventStream, parser, tmpName, parked>>

\* Between two calls an executable is installed on, or removed from, the
\* search path that `where` and `which` consult.
PathChange ==
    /\ \E e \in Executables :
         path' = IF e \in path THEN path \ {e} ELSE path \cup {e}
    /\ UNCHANGED <<platform, apiKey, observe, mcp, session, outside>>

NextResolver == ResolverCall \/ PathChange

SpecResolver == InitResolver /\ [][NextResolver]_vars

\* ---------------------------------------- playText over partial configurations
\* A value other than the default for each field of TtsConfig.
Overrides ==
    [ speaker           |-> "luna",
      modelId           |-> "arcana",
      audioFormat       |-> "wav",
      samplingRate      |-> 44100,
      speedAlpha        |-> 15,
      reduceLatency     |-> FALSE,
      initialBufferSize |-> 0 ]

\* Partial<TtsConfig>: every choice of the fields the caller supplies.
PartialConfigs ==
    { [f \in fields |-> Overrides[f]] : fields \in SUBSET DOMAIN DEFAULT_CONFIG }

InitConfigured ==
    /\ platform = "linux"
    /\ path = {"aplay"}
    /\ apiKey = TRUE
    /\ observe = FALSE
    /\ NoSession
    /\ resolverLog = << >>
    /\ NoHttp
    /\ mcpProcess = NoProcess

\* playText(text, customConfig) with any partial configuration.
ConfiguredCall ==
    /\ caller = "none"
    /\ \E custom \in PartialConfigs :
        playText(custom, TRUE)
    /\ caller' = "direct"
    /\ UNCHANGED <<params, toolResult>>
    /\ UNCHANGED <<env, offCall>>

NextConfigured == ConfiguredCall

SpecConfigured == InitConfigured /\ [][NextConfigured]_vars

\* -------------------------------------- index.ts: the event-stream speak tool
\* The server process takes one speak call at a time here; doSpeak is followed
\* from await to await.
wsSide == <<env, mcp, session, resolverLog, lastFrame, mcpProcess,
           eventStream, parser, tmpName, parked>>

\* The JSON body of the POST: params.speaker || "cove",
\* params.speedAlpha || 1.0, params.reduceLatency || false.
RequestBody(input) ==
    [ speaker       |-> IF "speaker" \in DOMAIN input /\ input.speaker # ""
                        THEN input.speaker ELSE "cove",
      modelId       |-> "mistv2",
      speedAlpha    |-> IF "speedAlpha" \in DOMAIN input /\ input.speedAlpha # 0
                        THEN input.speedAlpha ELSE 10,
      reduceLatency |-> IF "reduceLatency" \in DOMAIN input
                        THEN input.reduceLatency ELSE FALSE,
      audioFormat   |-> "mp3" ]

\* throw new McpError(ErrorCode.InternalError, `Rime API error: ${message}`)
RimeApiError(message) ==
    [kind |-> "McpError", code |-> "InternalError",
     message |-> <<"Rime API error: ", message>>]

\* How the awaited fetch may come back other than with a readable 200.
FetchFailures == {"HTTP error! status: 500", "request failed"}

\* The events parseEventStream yields; word_timestamps stands for the end
\* time of the last word.
RimeEvents ==
    { [type |-> "chunk", data |-> p] : p \in Payloads }
      \cup { [type |-> "chunk"], [type |-> "chunk", data |-> << >>] }
      \cup { [type |-> "timestamps", word_timestamps |-> 3] }
      \cup { [type |-> "error", message |-> m] : m \in RemoteMessages }
      \cup { [type |-> "error"], [type |-> "done", done |-> TRUE] }

\* event.data is truthy: present and not the empty string.
HasData(event) == "data" \in DOMAIN event /\ event.data # << >>

\* A 'finish' that leaves the stream as it was.
finishNothing(stream) == stream

\* The write stream has flushed and emits 'finish'.
finish(stream) == [stream EXCEPT !.state = "finished"]

\* The body of the for await loop of doSpeak, for one event.
onEvent(call, event) ==
    IF event.type = "chunk" /\ HasData(event)
    THEN [call EXCEPT !.outputStream = write(@, Base64Decode(event.data)),
                      !.chunkCount = @ + 1,
                      !.received = Append(@, event.data)]
    ELSE IF event.type = "timestamps"
    THEN [call EXCEPT !.wordTimestamps = event.word_timestamps]
    ELSE IF event.type = "error"
    THEN [call EXCEPT !.pc = "failed",
                      !.result = RimeApiError(IF "message" \in DOMAIN event
                                              THEN event.message
                                              ELSE "Unknown error from Rime API")]
    ELSE call

\* Start-up of index.ts: without RIME_API_KEY the process exits at once;
\* otherwise it makes its temporary directory.
InitHttp ==
    /\ platform = "linux"
    /\ path = {"aplay"}
    /\ apiKey \in BOOLEAN
    /\ observe = FALSE
    /\ NoSession
    /\ resolverLog = << >>
    /\ server = IF apiKey
                THEN [running |-> TRUE, tmpDir |-> "exists", files |-> {},
                      calls |-> 0]
                ELSE NoServer
    /\ httpCall = NoCall
    /\ played = << >>
    /\ mcpProcess = NoProcess
    /\ eventStream = NoBody
    /\ parser = NewParser

\* The call-tool request handler of index.ts, up to doSpeak's await fetch(...).
SpeakRequest ==
    /\ server.running
    /\ httpCall.pc \in {"idle", "returned", "failed"}
    /\ server.calls < MaxSpeaks
    /\ \E name \in ToolNames, input \in ToolInputs :
        httpCall' =
            IF name = "speak"
            THEN [NoCall EXCEPT !.pc = "fetching", !.request = RequestBody(input)]
            ELSE [NoCall EXCEPT !.pc = "failed",
                                !.result = [kind |-> "McpError",
                                            code |-> "MethodNotFound",
                                            message |-> <<"Unknown tool: ", name>>]]
    /\ server' = [server EXCEPT !.calls = @ + 1]
    /\ UNCHANGED <<played, wsSide>>

\* fetch settles: on a readable 200 doSpeak creates speech-<now>.mp3 in
\* tmpDir and enters the loop; anything else is thrown and rethrown.
FetchResponse ==
    /\ server.running
    /\ httpCall.pc = "fetching"
    /\ \E outcome \in {"ok"} \cup FetchFailures :
        IF outcome = "ok"
        THEN /\ httpCall' = [httpCall EXCEPT
                               !.pc = "reading",
                               !.tmpFilePath = server.calls,
                               !.outputStream = [state |-> "open", bytes |-> << >>]]
             /\ server' = [server EXCEPT !.files = @ \cup {server.calls}]
        ELSE /\ httpCall' = [httpCall EXCEPT !.pc = "failed",
                                             !.result = RimeApiError(outcome)]
             /\ UNCHANGED server
    /\ UNCHANGED <<played, wsSide>>

\* One turn of the for await loop.
StreamEvent ==
    /\ server.running
    /\ httpCall.pc = "reading"
    /\ \E event \in RimeEvents :
        /\ (event.type = "chunk" /\ HasData(event))
              => Len(httpCall.received) < MaxChunks
        /\ httpCall' = onEvent(httpCall, event)
    /\ UNCHANGED <<server, played, wsSide>>

\* The event stream ends: the loop exits and doSpeak calls outputStream.end().
StreamEnd ==
    /\ server.running
    /\ httpCall.pc = "reading"
    /\ httpCall' = [httpCall EXCEPT !.pc = "flushing",
                                    !.outputStream = end(@)]
    /\ UNCHANGED <<server, played, wsSide>>

\* reader.read() rejects (the connection drops): the loop throws.
StreamBroken ==
    /\ server.running
    /\ httpCall.pc = "reading"
    /\ httpCall' = [httpCall EXCEPT !.pc = "failed",
                                    !.result = RimeApiError("Premature close")]
    /\ UNCHANGED <<server, played, wsSide>>

\* 'finish' of the output stream: the await returns and doSpeak calls
\* playAudio(tmpFilePath).
OutputFinish ==
    /\ server.running
    /\ httpCall.pc = "flushing"
    /\ httpCall.outputStream.state = "ended"
    /\ httpCall' = [httpCall EXCEPT !.pc = "playing",
                                    !.outputStream = finish(@)]
    /\ played' = Append(played,
                        [file |-> httpCall.tmpFilePath,
                         exists |-> httpCall.tmpFilePath \in server.files,
                         stream |-> finish(httpCall.outputStream).state,
                         bytes |-> httpCall.outputStream.bytes,
                         chunks |-> httpCall.chunkCount])
    /\ UNCHANGED <<server, wsSide>>

\* playAudio's callback: doSpeak returns its result, or throws.
PlayAudioDone ==
    /\ server.running
    /\ httpCall.pc = "playing"
    /\ \E ok \in BOOLEAN :
        httpCall' =
            IF ok
            THEN [httpCall EXCEPT
                    !.pc = "returned",
                    !.result = [kind |-> "result", success |-> TRUE,
                                speaker |-> httpCall.request.speaker,
                                duration |-> httpCall.wordTimestamps]]
            ELSE [httpCall EXCEPT
                    !.pc = "failed",
                    !.result = RimeApiError("Failed to play audio: player failed")]
    /\ UNCHANGED <<server, played, wsSide>>

\* process.exit (SIGINT, or a fatal start-up error): the 'exit' hook removes
\* tmpDir and all in it.
ProcessExit ==
    /\ server.running
    /\ server' = [server EXCEPT !.running = FALSE, !.tmpDir = "removed",
                                !.files = {}]
    /\ UNCHANGED <<httpCall, played, wsSide>>

NextHttp ==
    \/ SpeakRequest
    \/ FetchResponse
    \/ StreamEvent
    \/ StreamEnd
    \/ StreamBroken
    \/ OutputFinish
    \/ PlayAudioDone
    \/ ProcessExit

SpecHttp == InitHttp /\ [][NextHttp]_vars

\* ------------------------------------------ index.ts: parseEventStream
\* A text is a sequence of pieces: "NL" is the newline, "event: " and
\* "data: " are the line prefixes, the other pieces are the rest of a line.  A
\* read boundary may fall between any two pieces.
Json1 == "{\"data\":\"AQID\"}"
Json2 == "{\"data\":\"BAUG\"}"
JsonDone == "{\"done\":true}"

\* JSON.parse(currentData): the object, for the texts that are JSON.
JsonTexts == {Json1, Json2, JsonDone}
JsonParse(text) ==
    IF text = Json1 THEN [data |-> "AQID"]
    ELSE IF text = Json2 THEN [data |-> "BAUG"]
    ELSE [done |-> "true"]

\* Two lines of an event, and the blank line after them.
EventText(name, data) ==
    <<"event: ", name, "NL", "data: ", data, "NL", "NL">>

\* The response bodies parsed.
Bodies ==
    { EventText("chunk", Json1) \o EventText("chunk", Json2),
      EventText("chunk", Json1) \o EventText("done", JsonDone),
      EventText("chunk", "{\"data\":") \o EventText("chunk", Json2),
      <<"data: ", Json1, "NL">> \o EventText("chunk", Json2),
      EventText("chunk", Json1) \o <<"event: ", "chunk", "NL", "data: ", Json2>> }

HasNewline(text) == \E i \in 1..Len(text) : text[i] = "NL"

FirstNewline(text) ==
    CHOOSE i \in 1..Len(text) :
        /\ text[i] = "NL"
        /\ \A j \in 1..(i - 1) : text[j] # "NL"

\* buffer.split("\n"): the lines, the last being what follows the last newline.
RECURSIVE SplitLines(_)
SplitLines(text) ==
    IF ~HasNewline(text) THEN <<text>>
    ELSE <<SubSeq(text, 1, FirstNewline(text) - 1)>>
           \o SplitLines(SubSeq(text, FirstNewline(text) + 1, Len(text)))

\* line.slice(7).trim(), line.slice(6).trim()
RestOfLine(line) == SubSeq(line, 2, Len(line))

\* { type: currentEvent, ...parsedData }
YieldedEvent(currentEvent, parsedData) ==
    [ f \in {"type"} \cup DOMAIN parsedData |->
        IF f \in DOMAIN parsedData THEN parsedData[f] ELSE currentEvent ]

\* The for loop over the whole lines of one read, from the currentEvent it
\* has so far; the events it yields, in order.  currentData is set and tested
\* on the same line, so it is not carried along.
RECURSIVE EventsOfLines(_, _)
EventsOfLines(lines, currentEvent) ==
    IF lines = << >> THEN << >>
    ELSE LET line == Head(lines)
             rest == Tail(lines)
         IN  IF line = << >> THEN EventsOfLines(rest, currentEvent)
             ELSE IF Head(line) = "event: "
             THEN EventsOfLines(rest, RestOfLine(line))
             ELSE IF Head(line) = "data: "
             THEN IF RestOfLine(line) # << >> /\ currentEvent # << >>
                  THEN IF Len(RestOfLine(line)) = 1
                          /\ RestOfLine(line)[1] \in JsonTexts
                       THEN <<YieldedEvent(currentEvent[1],
                                           JsonParse(RestOfLine(line)[1]))>>
                              \o EventsOfLines(rest, << >>)
                       ELSE EventsOfLines(rest, currentEvent)
                  ELSE EventsOfLines(rest, currentEvent)
             ELSE EventsOfLines(rest, currentEvent)

\* One turn of the while loop: buffer += decode(value); the whole lines are
\* processed with a fresh currentEvent, the last piece stays in the buffer.
onRead(p, value) ==
    LET lines == SplitLines(p.buffer \o value)
    IN  [buffer |-> lines[Len(lines)],
         yielded |-> p.yielded
                       \o EventsOfLines(SubSeq(lines, 1, Len(lines) - 1), << >>)]

notParser == <<env, mcp, session, resolverLog, lastFrame, mcpProcess, server,
              httpCall, played, tmpName, parked>>

InitParse ==
    /\ platform = "linux"
    /\ path = {"aplay"}
    /\ apiKey = TRUE
    /\ observe = FALSE
    /\ NoSession
    /\ resolverLog = << >>
    /\ server = NoServer
    /\ httpCall = NoCall
    /\ played = << >>
    /\ mcpProcess = NoProcess
    /\ \E body \in Bodies : eventStream = [NoBody EXCEPT !.body = body]
    /\ parser = NewParser

\* reader.read() returns the next pieces of the body, however many.
Read ==
    /\ ~eventStream.ended
    /\ eventStream.pos < Len(eventStream.body)
    /\ \E n \in 1..(Len(eventStream.body) - eventStream.pos) :
        /\ parser' = onRead(parser,
                            SubSeq(eventStream.body, eventStream.pos + 1,
                                   eventStream.pos + n))
        /\ eventStream' = [eventStream EXCEPT !.pos = @ + n]
    /\ UNCHANGED notParser

\* reader.read() returns done: the loop breaks and the generator returns.
ReadDone ==
    /\ ~eventStream.ended
    /\ eventStream.pos = Len(eventStream.body)
    /\ eventStream' = [eventStream EXCEPT !.ended = TRUE]
    /\ UNCHANGED <<parser, notParser>>

NextParse == Read \/ ReadDone

SpecParse == InitParse /\ [][NextParse]_vars

\* ------------------------------------------------------------------ claims
\* The bytes of the chunks delivered, in arrival order.
RECURSIVE Concatenation(_)
Concatenation(chunks) ==
    IF chunks = << >> THEN << >>
    ELSE Base64Decode(Head(chunks)) \o Concatenation(Tail(chunks))

K == config.initialBufferSize

\* C1: the bytes written to the session's audio file are exactly the
\* concatenation of the chunks delivered, in arrival order, whatever their
\* sizes and whatever other events came between them.
C1_FileIsConcatenation ==
    audioFileStream.bytes = Concatenation(delivered)

\* C1's case: three chunks, not all alike, written around a playback start.
C1_Witness ==
    /\ Len(delivered) = 3
    /\ delivered[1] # delivered[2]
    /\ Len(startLog) = 1
    /\ startLog[1].chunks = 2
    /\ audioFileStream.bytes = Concatenation(delivered)

\* C2 as stated: once K chunks (and at least one) have been delivered,
\* playback has been started exactly once, and that start was made while
\* handling the K-th chunk.
C2_StartsAtKthChunk ==
    (Len(delivered) >= K /\ Len(delivered) >= 1) =>
        /\ Len(startLog) = 1
        /\ startLog[1].on = "chunk"
        /\ startLog[1].chunks = K

\* The chunk whose handling starts playback: the K-th, the first when K = 0.
StartingChunk == IF K = 0 THEN 1 ELSE K

\* C2, amended: once max(K, 1) chunks have been delivered, playback has been
\* started exactly once, while handling chunk max(K, 1); it is never started
\* by a chunk before that one, and never twice.
C2_StartsAtThreshold ==
    /\ Len(startLog) <= 1
    /\ Len(delivered) >= StartingChunk =>
        /\ Len(startLog) = 1
        /\ startLog[1].on = "chunk"
        /\ startLog[1].chunks = StartingChunk
    /\ (Len(delivered) < StartingChunk /\ startLog # << >>) =>
        startLog[1].on = "close"

\* C2's case: threshold 2, a third chunk delivered after the start.
C2_Witness ==
    /\ K = 2
    /\ Len(delivered) = 3
    /\ Len(startLog) = 1
    /\ startLog[1].on = "chunk"
    /\ startLog[1].chunks = 2

\* C3: when the transport has closed with fewer than K chunks delivered,
\* playback was started exactly once, on the close event, and a player that
\* was spawned was started on a file holding exactly the chunks delivered.
C3_StartsOnClose ==
    (ws = "closed" /\ Len(delivered) < K) =>
        /\ Len(startLog) = 1
        /\ startLog[1].on = "close"
        /\ spawnCount >= 1 =>
            playerProcess.input =
                [exists |-> TRUE, bytes |-> Concatenation(delivered)]

\* A step that handles a transport error.
TransportErrorStep == ws \in {"connecting", "open"} /\ ws' = "errored"

\* A step that handles the error frame carrying `message`.
ErrorFrameStep(message) ==
    /\ ws = "open"
    /\ \E outcome \in SpawnOutcomes :
        incoming([type |-> "error", message |-> message], outcome)
    /\ UNCHANGED <<customConfig, config, ws, sent, eosTimer>>

C5_NoStartAfterFailure ==
    \A i \in 1..Len(startLog) : startLog[i].promise = "pending"

\* C6: when the promise is resolved, the transport has reached end-of-stream,
\* every chunk delivered is in the audio file and the player has exited.
C6_ResolvedMeansFullyPlayed ==
    promise.state = "resolved" =>
        /\ ws = "closed"
        /\ playerProcess.state = "exited"
        /\ audioFileStream.bytes = Concatenation(delivered)

\* A step in which the player process's close event is handled.
PlayerExitStep ==
    playerProcess.state # "exited" /\ playerProcess'.state = "exited"

C8_SettledMeansCleaned ==
    Settled(promise) => tmpDir # "exists"

\* The value of an optional tool argument, or its documented default.
Argument(input, field, default) ==
    IF field \in DOMAIN input THEN input[field] ELSE default

\* C9: in a session the speak tool has opened a transport for, the voice, the speed and the
\* latency flag of the synthesis request are the tool's arguments, or "cove",
\* 1.0 and false when absent; the result reports the voice actually used.
C9_ArgumentsDetermineRequest ==
    (caller = "speak" /\ ws # "none") =>
        /\ config.speaker = Argument(params, "speaker", "cove")
        /\ config.speedAlpha = Argument(params, "speedAlpha", 10)
        /\ config.reduceLatency = Argument(params, "reduceLatency", FALSE)
        /\ toolResult.kind = "result" => toolResult.speaker = config.speaker

\* None of the probed executables resolves.
NothingResolves == path \cap {players[i] : i \in DOMAIN players} = {}

FirstInOrder(resolvable) ==
    CHOOSE k \in 1..Len(players) :
        /\ players[k] \in resolvable
        /\ \A j \in 1..(k - 1) : players[j] \notin resolvable

C11_ResolverFollowsPlatformAndPath ==
    \A i \in 1..Len(resolverLog) :
        LET call == resolverLog[i]
        IN  IF platform = "darwin"
            THEN /\ call.answer.ok /\ call.answer.cmd = "afplay"
                 /\ call.probed = << >>
            ELSE IF platform = "win32"
            THEN /\ call.probed = <<"ffplay">>
                 /\ call.answer.ok
                 /\ IF "ffplay" \in call.path
                    THEN call.answer.cmd = "ffplay"
                    ELSE /\ call.answer.cmd = "powershell"
                         /\ call.answer.useFilePath
            ELSE IF call.path \cap Executables = {}
            THEN /\ ~call.answer.ok
                 /\ call.probed = players
            ELSE /\ call.answer.ok
                 /\ call.answer.cmd = players[FirstInOrder(call.path)]
                 /\ call.probed = SubSeq(players, 1, FirstInOrder(call.path))

\* Two calls on a platform with a search list, the path changed in between:
\* the second call passed a failed probe and answered differently.
C11_Witness ==
    /\ platform \notin {"darwin", "win32"}
    /\ Len(resolverLog) = 2
    /\ resolverLog[1].answer.ok /\ resolverLog[2].answer.ok
    /\ resolverLog[1].answer.cmd = "ffplay"
    /\ resolverLog[2].answer.cmd = "mplayer"
    /\ Len(resolverLog[2].probed) = 3

\* C12: the configuration playText works with is the field-by-field merge of
\* the defaults with the caller's partial configuration: the caller's value
\* where one was supplied, otherwise speaker cove, modelId mistv2, audioFormat
\* mp3, samplingRate 22050, speedAlpha 1.0, reduceLatency true,
\* initialBufferSize 2.
C12_EffectiveConfigIsMerge ==
    caller = "direct" =>
        /\ DOMAIN config = {"speaker", "modelId", "audioFormat", "samplingRate",
                            "speedAlpha", "reduceLatency", "initialBufferSize"}
        /\ \A f \in DOMAIN customConfig : config[f] = customConfig[f]
        /\ "speaker" \notin DOMAIN customConfig => config.speaker = "cove"
        /\ "modelId" \notin DOMAIN customConfig => config.modelId = "mistv2"
        /\ "audioFormat" \notin DOMAIN customConfig => config.audioFormat = "mp3"
        /\ "samplingRate" \notin DOMAIN customConfig => config.samplingRate = 22050
        /\ "speedAlpha" \notin DOMAIN customConfig => config.speedAlpha = 10
        /\ "reduceLatency" \notin DOMAIN customConfig => config.reduceLatency = TRUE
        /\ "initialBufferSize" \notin DOMAIN customConfig
              => config.initialBufferSize = 2

\* A call that supplied some fields and left others to the defaults.
C12_Witness ==
    /\ caller = "direct"
    /\ DOMAIN customConfig = {"speaker", "speedAlpha"}
    /\ config.speaker = "luna" /\ config.speedAlpha = 15
    /\ config.modelId = "mistv2" /\ config.initialBufferSize = 2

\* C13: in the event-stream doSpeak the player is invoked only once the
\* download is complete: the stream has ended, every chunk received has been
\* written and the output stream has finished; it is never started while
\* chunks are still arriving.
C13_PlayerAfterDownload ==
    /\ \A i \in 1..Len(played) :
         /\ played[i].stream = "finished"
         /\ played[i].exists
    /\ httpCall.pc \in {"reading", "flushing"}
         => \A i \in 1..Len(played) : played[i].file # httpCall.tmpFilePath
    /\ httpCall.pc \in {"playing", "returned"}
         => /\ played # << >>
            /\ played[Len(played)].file = httpCall.tmpFilePath
            /\ played[Len(played)].chunks = Len(httpCall.received)
            /\ played[Len(played)].bytes = Concatenation(httpCall.received)
            /\ httpCall.outputStream.bytes = played[Len(played)].bytes

\* A call that received two chunks and returned after playing them.
C13_Witness ==
    /\ httpCall.pc = "returned"
    /\ Len(httpCall.received) = 2
    /\ httpCall.received[1] # httpCall.received[2]
    /\ played # << >>
    /\ played[Len(played)].bytes = Concatenation(httpCall.received)

\* C14: after a speak call of the event-stream server has finished, by
\* returning or by failing, the temporary audio file it created is gone.
C14_FinishedCallLeavesNoFile ==
    (server.running /\ httpCall.pc \in {"returned", "failed"})
        => httpCall.tmpFilePath \notin server.files

\* C15: with RIME_API_KEY missing, playText's promise is rejected with the
\* configuration error, no temporary directory is made and no WebSocket is
\* opened.
C15_MissingKeyRejects ==
    (caller = "direct" /\ ~apiKey)
        => /\ promise.state = "rejected"
           /\ promise.error = ConfigError
           /\ tmpDir = "none"
           /\ ws = "none"
           /\ audioFileStream = NoStream
           /\ sent = << >>

\* A direct call made without the key.
C15_Witness ==
    /\ ~apiKey
    /\ caller = "direct"
    /\ promise.state = "rejected"
    /\ promise.error.kind = "ConfigError"

\* C16: if the transport eventually fails or closes and every spawned player
\* eventually exits or reports an error, a pending promise eventually settles.
C16_EventuallySettles ==
    (promise.state = "pending") ~> Settled(promise)

\* A session whose promise was settled by the player's exit after the
\* transport had closed.
C16_Witness ==
    /\ ws = "closed"
    /\ playerProcess.state = "exited"
    /\ promise.state = "resolved"
    /\ startLog # << >>
    /\ startLog[1].on = "close"

\* C17: when the promise has been rejected because of an error message, the
\* audio file stream has already been closed.
C17_ErrorMessageClosesSink ==
    (promise.state = "rejected" /\ promise.error.kind = "RemoteError")
        => audioFileStream.state = "ended"

\* The message handler handling a timestamps frame.
TimestampsStep ==
    /\ ws = "open"
    /\ \E outcome \in SpawnOutcomes :
        incoming([type |-> "timestamps"], outcome)
    /\ lastFrame' = IF observe THEN "timestamps" ELSE lastFrame
    /\ UNCHANGED <<customConfig, config, ws, sent, eosTimer>>
    /\ UNCHANGED <<env, mcp, elsewhere>>

\* C18: a timestamps frame leaves the session as it was: nothing is written,
\* the chunk counter keeps its value, no playback is started and the promise
\* is not settled; the session goes on from the state it had before the frame.
C18_MetadataChangesNothing ==
    [][TimestampsStep => UNCHANGED session]_vars

\* A buffering session that has just handled a timestamps frame.
C18_Witness ==
    /\ lastFrame = "timestamps"
    /\ ws = "open"
    /\ promise.state = "pending"
    /\ chunkCount = 1
    /\ ~isPlaying
    /\ startLog = << >>

\* C19 as stated: a close event in a session that has not settled leaves the
\* promise pending.
C19_CloseNeverSettles ==
    [][(WsClose /\ promise.state = "pending") => promise'.state = "pending"]_vars

\* C19: the close event ends the audio file stream.  It settles the promise
\* only when the close handler itself starts playback and no player can be
\* resolved or spawn throws, with a rejection carrying that error; otherwise
\* the promise stays pending until the player process exits or reports an
\* error.
C19_CloseSettlesOnlyOnStartFailure ==
    /\ [][(WsClose /\ promise.state = "pending")
            => /\ audioFileStream'.state = "ended"
               /\ \/ promise' = promise
                  \/ /\ ~isPlaying
                     /\ spawnCount' = spawnCount
                     /\ promise'.state = "rejected"
                     /\ promise'.error \in {NoPlayerAvailable, SpawnThrows}]_vars
    /\ [][(ws = "closed" /\ promise.state = "pending" /\ promise' # promise)
            => (PlayerError \/ PlayerClose)]_vars

\* The transport closed before the threshold, a player was spawned by the
\* close handler and runs; the promise is pending.
C19_Witness ==
    /\ ws = "closed"
    /\ audioFileStream.state = "ended"
    /\ promise.state = "pending"
    /\ playerProcess.state = "running"
    /\ startLog # << >>
    /\ startLog[1].on = "close"

\* A playback start that ended in a failure to resolve or to spawn a player.
StartFailedStep ==
    /\ startLog' # startLog
    /\ spawnCount' = spawnCount

C21_EosExactlyOnce ==
    eosTimer = "fired" => sent = <<"text", "eos">>

\* C21: a session whose transport never opened has sent nothing; an opened
\* session sent the text first; eos follows the text, at most once, and is
\* sent only if the socket is still open when the timer fires.
C21_TextThenEos ==
    /\ sent \in { << >>, <<"text">>, <<"text", "eos">> }
    /\ ws \in {"none", "connecting"} => sent = << >>
    /\ (eosTimer = "unset") = (sent = << >>)
    /\ sent = <<"text", "eos">> => eosTimer = "fired"
    /\ (eosTimer = "fired" /\ ws = "open") => sent = <<"text", "eos">>

\* The text and eos were sent, and the socket is still open.
C21_Witness ==
    /\ ws = "open"
    /\ eosTimer = "fired"
    /\ sent = <<"text", "eos">>

\* C22: there is no timeout.  While the transport is open (it has neither
\* closed nor failed) and fewer than K chunks have arrived, playback has not
\* been started, and the promise is pending unless an error message or a
\* message the handler could not process has rejected it.
C22_HangsBelowThreshold ==
    (ws = "open" /\ Len(delivered) < K)
        => /\ ~isPlaying
           /\ startLog = << >>
           /\ spawnCount = 0
           /\ playerProcess = NoPlayer
           /\ promise.state # "resolved"
           /\ promise.state = "rejected"
                => promise.error.kind \in {"RemoteError", "ProcessingError"}

\* An open session below its threshold long after the eos was sent: one
\* chunk of the two it waits for, the promise still pending.
C22_Witness ==
    /\ ws = "open"
    /\ eosTimer = "fired"
    /\ K = 2
    /\ Len(delivered) = 1
    /\ promise.state = "pending"
    /\ ~isPlaying

\* C23: when the server process has been ended by SIGINT, the temporary
\* directory of a session that was active has been removed (its deletion was
\* attempted before the exit).
C23_SigintCleansSession ==
    ~mcpProcess.running => tmpDir # "exists"

\* C25: once the audio file stream has been ended, nothing more is written
\* to it: no step changes an ended stream.
C25_NoWriteAfterEnd ==
    [][audioFileStream.state = "ended"
         => audioFileStream' = audioFileStream]_vars

\* The stream was ended with the chunks delivered in it, and the session
\* went on (the player it started has exited).
C25_Witness ==
    /\ audioFileStream.state = "ended"
    /\ Len(delivered) = 2
    /\ audioFileStream.bytes = Concatenation(delivered)
    /\ playerProcess.state = "exited"

C27_ToolDispatch ==
    /\ caller = "other"
         => /\ toolResult.kind = "McpError"
            /\ toolResult.code = "MethodNotFound"
            /\ promise = NoPromise
            /\ ws = "none" /\ tmpDir = "none" /\ spawnCount = 0
    /\ (caller = "speak" /\ toolResult # NoResult)
         => /\ Settled(promise)
            /\ IF promise.state = "resolved"
               THEN /\ toolResult.kind = "result"
                    /\ toolResult.success = TRUE
               ELSE /\ toolResult.kind = "McpError"
                    /\ toolResult.code = "InternalError"
                    /\ toolResult.message =
                         <<"Rime API error: ", promise.error.message>>
    /\ (caller = "speak" /\ ~Settled(promise)) => toolResult = NoResult

\* A speak call that failed on an error message of the remote end and was
\* answered with the wrapped error.
C27_Witness ==
    /\ caller = "speak"
    /\ promise.state = "rejected"
    /\ promise.error.kind = "RemoteError"
    /\ toolResult # NoResult
    /\ toolResult.kind = "McpError"

C29_OneAttempt ==
    /\ Len(startLog) <= 1
    /\ spawnCount <= 1
    /\ spawnCount <= Len(startLog)

\* The attempt at the threshold failed (no player resolves); more chunks came
\* and the transport closed, and there was no second attempt.
C29_Witness ==
    /\ Len(startLog) = 1
    /\ startLog[1].on = "chunk"
    /\ startLog[1].player = "NoPlayerAvailable"
    /\ Len(delivered) > startLog[1].chunks
    /\ ws = "closed"
    /\ spawnCount = 0

\* C24: two playText calls in one process share nothing.  Their directories
\* have different names, and whatever the handlers of one call did (chunk,
\* error, close, cleanup), the other call, when the event loop turns to it,
\* has its directory, file content, counters, flags, connection, player and
\* promise exactly as it left them.
C24_SessionsShareNothing ==
    [][ /\ (tmpName # "none" => tmpName # parked.tmpName)
        /\ (parked' # parked => Closure' = parked) ]_vars

\* The call the event loop has turned to is pending, with its directory and
\* a chunk in its file, after the other call took an error, was rejected
\* and removed its own directory.
C24_Witness ==
    /\ promise = Pending
    /\ tmpDir = "exists"
    /\ audioFileStream.bytes # << >>
    /\ parked.tmpName # "none"
    /\ parked.tmpDir = "removed"
    /\ parked.promise.state = "rejected"
    /\ parked.audioFileStream.bytes # << >>

\* C30: whatever the reads a body arrives in, parseEventStream has yielded,
\* when the stream ends, the events it yields for the body read in one piece.
C30_SplitsDoNotMatter ==
    eventStream.ended
        => parser.yielded = onRead(NewParser, eventStream.body).yielded

\* A step that handles a message whose text is not JSON.
MalformedStep ==
    /\ ws = "open"
    /\ \E outcome \in SpawnOutcomes :
        incoming([raw |-> "}{"], outcome)
    /\ lastFrame' = IF observe THEN "malformed" ELSE lastFrame
    /\ UNCHANGED <<customConfig, config, ws, sent, eosTimer>>
    /\ UNCHANGED <<env, mcp, elsewhere>>

\* Well-formed messages the handler has no branch for: a chunk without a
\* data field, a type it does not name.
IgnoredFrames == { [type |-> "chunk"], [type |-> "pong"] }

\* A step that handles the frame.
IgnoredStep(frame) ==
    /\ ws = "open"
    /\ \E outcome \in SpawnOutcomes :
        incoming(frame, outcome)
    /\ lastFrame' = IF observe THEN FrameType(frame) ELSE lastFrame
    /\ UNCHANGED <<customConfig, config, ws, sent, eosTimer>>
    /\ UNCHANGED <<env, mcp, elsewhere>>

====
